---- MODULE Spec2Model ----
(***************************************************************************)
(* The XGBoost-on-GPU quickstart notebook as a state machine.  One action  *)
(* per notebook cell that changes the notebook's namespace; the cells run  *)
(* top to bottom and an exception raised by a cell ends the run.           *)
(*                                                                         *)
(* Strings (column names, category values) are sequences of one-character  *)
(* strings, so that find, slicing, concatenation and sorting are computed  *)
(* as the Python code computes them.  A dataset is a schema (a sequence of *)
(* fields, as df.schema) and a bag of rows (SQL tables are unordered and   *)
(* keep duplicates).  Every row carries src, the index of the row of the   *)
(* warehouse table it comes from; src is not a column.                     *)
(***************************************************************************)
EXTENDS Integers, Sequences, FiniteSets, Bags, TLC

VARIABLES
    pc,                 \* the next cell to run, "done" or "failed"
    failed_cell,        \* the cell whose exception ended the run ("" if none)
    table,              \* XGB_GPU_DATABASE.XGB_GPU_SCHEMA.VEHICLES_TABLE
    df,
    string_cols,
    non_string_cols,
    df_before_cast,     \* df on entry to infrequent_category_casting
    top_n_models,
    df_pd,
    transformed_df,
    df_renamed,
    df_rerun,           \* the Encoder applied to df_renamed
    train,
    test,
    cpu_snowpark_xgb,
    gpu_snowpark_xgb,
    cpu_test_preds,
    gpu_test_preds,
    metrics,
    results_df

vars == <<pc, failed_cell, table, df, string_cols, non_string_cols,
          df_before_cast, top_n_models, df_pd, transformed_df, df_renamed,
          df_rerun, train, test, cpu_snowpark_xgb, gpu_snowpark_xgb,
          cpu_test_preds, gpu_test_preds, metrics, results_df>>

----------------------------------------------------------------------------
(* Bounds of the model.                                                    *)

\* rows of the warehouse table in the full pipeline
MaxRows == 1
\* rows of the warehouse table in the runs that vary the prices
MaxPriceRows == 2
\* rows of the warehouse table in the cardinality-reducer runs
MaxCastRows == 4
\* rows of the warehouse table in the encoder runs
MaxEncRows == 2
\* the k of "top k models": keys()[0:1000] in the notebook, scaled down so that
\* a table of MaxCastRows rows can hold more than k distinct models
TopN == 2

(* Program constants.                                                      *)

\* col('PRICE') < 100000
PriceLimit == 100000
\* _ONE_MILLION of DataFrame.random_split
OneMillion == 1000000

----------------------------------------------------------------------------
(* Python strings.                                                         *)

Range(s) == {s[i] : i \in 1..Len(s)}

\* the characters the model uses, in code-point order
CodeOrder ==
    <<"\"", "0", "1", "2", "3", "4", "5", "6", "7", "8", "9",
      "A", "B", "C", "D", "E", "F", "G", "H", "I", "J", "K", "L", "M",
      "N", "O", "P", "Q", "R", "S", "T", "U", "V", "W", "X", "Y", "Z",
      "_", "a", "b", "c">>

Ord(c) == CHOOSE i \in 1..Len(CodeOrder) : CodeOrder[i] = c

UpperLetters == {CodeOrder[i] : i \in 12..37}
LowerLetters == {CodeOrder[i] : i \in 39..41}
DigitChars == {CodeOrder[i] : i \in 2..11}

Upper(c) == IF c = "a" THEN "A" ELSE IF c = "b" THEN "B"
            ELSE IF c = "c" THEN "C" ELSE c

\* str.__lt__: lexicographic by code point, a proper prefix is smaller
StrLess(a, b) ==
    \/ /\ Len(a) < Len(b)
       /\ \A i \in 1..Len(a) : a[i] = b[i]
    \/ \E i \in 1..Len(a) :
          /\ i <= Len(b)
          /\ \A j \in 1..(i - 1) : a[j] = b[j]
          /\ Ord(a[i]) < Ord(b[i])

\* sorted(S) for a collection of distinct strings
RECURSIVE SortedSeq(_)
SortedSeq(S) ==
    IF S = {} THEN <<>>
    ELSE LET m == CHOOSE x \in S : \A y \in S \ {x} : StrLess(x, y)
         IN <<m>> \o SortedSeq(S \ {m})

\* str.find(c): the 0-based index of the first c, or -1
Find(s, c) ==
    IF \E i \in 1..Len(s) : s[i] = c
    THEN (CHOOSE i \in 1..Len(s) :
             s[i] = c /\ \A j \in 1..(i - 1) : s[j] # c) - 1
    ELSE -1

\* one bound of a slice: a negative index counts from the end, then clamped
SliceBound(s, i) ==
    LET k == IF i < 0 THEN i + Len(s) ELSE i
    IN IF k < 0 THEN 0 ELSE IF k > Len(s) THEN Len(s) ELSE k

\* s[a:b]
PySlice(s, a, b) == SubSeq(s, SliceBound(s, a) + 1, SliceBound(s, b))

\* str(n) for n >= 0, as the f-string formats it
RECURSIVE Decimal(_)
Decimal(n) ==
    IF n < 10 THEN <<CodeOrder[n + 2]>>
    ELSE Decimal(n \div 10) \o <<CodeOrder[(n % 10) + 2]>>

----------------------------------------------------------------------------
(* Snowflake identifiers.                                                  *)

\* [A-Z_][A-Z0-9_]*: a name that df.columns shows without quotes
IsUnquotedId(s) ==
    /\ Len(s) > 0
    /\ s[1] \in UpperLetters \cup {"_"}
    /\ \A i \in 2..Len(s) : s[i] \in UpperLetters \cup DigitChars \cup {"_"}

\* [a-zA-Z_][a-zA-Z0-9_]*: a name Snowpark upper-cases when it is given unquoted
IsUnquotedPattern(s) ==
    /\ Len(s) > 0
    /\ s[1] \in UpperLetters \cup LowerLetters \cup {"_"}
    /\ \A i \in 2..Len(s) :
          s[i] \in UpperLetters \cup LowerLetters \cup DigitChars \cup {"_"}

Quoted(s) == <<"\"">> \o s \o <<"\"">>

\* identifier.get_inferred_name: quotes only when the name needs them
InferredName(s) == IF IsUnquotedId(s) THEN s ELSE Quoted(s)

\* the name df.columns shows for a column renamed to s (quote_name)
NormalizedName(s) ==
    IF IsUnquotedPattern(s) THEN [i \in 1..Len(s) |-> Upper(s[i])]
    ELSE Quoted(s)

\* the column names the notebook writes out
ID == <<"I", "D">>
URL == <<"U", "R", "L">>
REGION_URL == <<"R", "E", "G", "I", "O", "N", "_", "U", "R", "L">>
IMAGE_URL == <<"I", "M", "A", "G", "E", "_", "U", "R", "L">>
DESCRIPTION == <<"D", "E", "S", "C", "R", "I", "P", "T", "I", "O", "N">>
VIN == <<"V", "I", "N">>
POSTING_DATE == <<"P", "O", "S", "T", "I", "N", "G", "_", "D", "A", "T", "E">>
COUNTY == <<"C", "O", "U", "N", "T", "Y">>
REGION == <<"R", "E", "G", "I", "O", "N">>
PRICE == <<"P", "R", "I", "C", "E">>
MODEL == <<"M", "O", "D", "E", "L">>
PREDICTED_PRICE ==
    <<"P", "R", "E", "D", "I", "C", "T", "E", "D", "_", "P", "R", "I", "C", "E">>
\* a column of the table that the notebook does not name
EXTRA == <<"E", "X", "T", "R", "A">>

NA == <<"N", "A">>
INFREQUENT == <<"I", "N", "F", "R", "E", "Q", "U", "E", "N", "T">>

----------------------------------------------------------------------------
(* Datasets.                                                               *)

Null == [null |-> TRUE]
V(x) == [null |-> FALSE, v |-> x]

Undefined == [defined |-> FALSE]
Field(n, t) == [name |-> n, datatype |-> t]
DataFrame(s, r) == [defined |-> TRUE, schema |-> s, rows |-> r]
Row(i, c) == [src |-> i, cells |-> c]

Columns(d) == [i \in 1..Len(d.schema) |-> d.schema[i].name]
ColumnSet(d) == {d.schema[i].name : i \in 1..Len(d.schema)}
Restrict(f, S) == [c \in S |-> f[c]]

\* the rows S of bag B, with their multiplicities
BagFilter(B, S) == [r \in S |-> B[r]]

\* DataFrame.select(names): the named columns, in the order given
Select(d, names) ==
    LET fieldOf(n) == d.schema[CHOOSE i \in 1..Len(d.schema) : d.schema[i].name = n]
        proj(r) == Row(r.src, Restrict(r.cells, Range(names)))
    IN DataFrame([i \in 1..Len(names) |-> fieldOf(names[i])],
                 BagOfAll(proj, d.rows))

\* DataFrame.drop(names): names the dataset does not have are ignored
Drop(d, names) ==
    LET keep(f) == f.name \notin Range(names)
    IN Select(d, [i \in 1..Len(SelectSeq(d.schema, keep)) |->
                     SelectSeq(d.schema, keep)[i].name])

\* mutant of UnionAll: DataFrame.union, which removes duplicates
UnionDistinct(a, b) ==
    DataFrame(a.schema, SetToBag(DOMAIN a.rows \cup DOMAIN b.rows))

\* DataFrame.unionAll: duplicates are kept
UnionAll(a, b) == DataFrame(a.schema, a.rows (+) b.rows)

----------------------------------------------------------------------------
(* Cell load_data.                                                         *)

\* session.table(table)
SessionTable(t) ==
    DataFrame(t.schema,
              SetToBag({Row(i, t.rows[i]) : i \in 1..Len(t.rows)}))

(* Cell filter_to_100k.                                                    *)

\* mutant of PriceBelowLimit: <= for <
PriceAtMostLimit(r) ==
    /\ ~r.cells[PRICE].null
    /\ r.cells[PRICE].v <= PriceLimit

\* mutant of PriceBelowLimit: a missing PRICE passes the filter
PriceBelowLimitOrMissing(r) ==
    \/ r.cells[PRICE].null
    \/ r.cells[PRICE].v < PriceLimit

\* col('PRICE') < 100000 in SQL: NULL < 100000 is NULL, and the row is not kept
PriceBelowLimit(r) ==
    /\ ~r.cells[PRICE].null
    /\ r.cells[PRICE].v < PriceLimit

Filter100k(d) ==
    DataFrame(d.schema,
              BagFilter(d.rows, {r \in DOMAIN d.rows : PriceBelowLimit(r)}))

(* Cell drop_columns.                                                      *)

drop_cols ==
    <<ID, URL, REGION_URL, IMAGE_URL, DESCRIPTION, VIN, POSTING_DATE, COUNTY>>

(* Cell fill_null.                                                         *)

\* df.select('REGION').schema[0].datatype
StringTypeOf(d) == Select(d, <<REGION>>).schema[1].datatype

\* [col.name for col in df.schema if col.datatype == string_type]
StringCols(d) ==
    LET isString(f) == f.datatype = StringTypeOf(d)
        fs == SelectSeq(d.schema, isString)
    IN [i \in 1..Len(fs) |-> fs[i].name]

\* _is_value_type_matching_for_na_function: a str fills a StringType column;
\* an int fills an integer or a floating-point column, no other
ValueTypeMatches(kind, datatype) ==
    \/ kind = "str" /\ datatype = "StringType"
    \/ kind = "int" /\ datatype \in {"LongType", "DoubleType"}

\* DataFrame.fillna(value, subset=subset): a column of the subset whose type
\* does not match the value is skipped
FillNa(d, value, kind, subset) ==
    LET typeOf(c) ==
            (d.schema[CHOOSE i \in 1..Len(d.schema) : d.schema[i].name = c]).datatype
        filled(c) == c \in Range(subset) /\ ValueTypeMatches(kind, typeOf(c))
        fill(r) == Row(r.src,
                       [c \in DOMAIN r.cells |->
                           IF filled(c) /\ r.cells[c].null THEN V(value)
                           ELSE r.cells[c]])
    IN DataFrame(d.schema, BagOfAll(fill, d.rows))

(* Cell infrequent_category_casting.                                       *)

\* Series.value_counts(): how often each value occurs, missing values left out
ValueCounts(d, c) ==
    LET vals == {r.cells[c].v : r \in {x \in DOMAIN d.rows : ~x.cells[c].null}}
        has(v) == BagCardinality(
                      BagFilter(d.rows, {r \in DOMAIN d.rows : r.cells[c] = V(v)}))
    IN [v \in vals |-> has(v)]

\* mutant of TopKeys: value_counts(ascending=True), the n least frequent values
TopKeysAscending(counts, n) ==
    {S \in SUBSET DOMAIN counts :
        /\ Cardinality(S) = IF Cardinality(DOMAIN counts) < n
                            THEN Cardinality(DOMAIN counts) ELSE n
        /\ \A a \in S : \A b \in (DOMAIN counts) \ S : counts[a] <= counts[b]}

\* the key sets value_counts().keys()[0:n] can be: the n most frequent values;
\* the order among values of equal count is not fixed
TopKeys(counts, n) ==
    {S \in SUBSET DOMAIN counts :
        /\ Cardinality(S) = IF Cardinality(DOMAIN counts) < n
                            THEN Cardinality(DOMAIN counts) ELSE n
        /\ \A a \in S : \A b \in (DOMAIN counts) \ S : counts[a] >= counts[b]}

\* MODEL.apply(lambda x: x if x in top_n_models else 'INFREQUENT')
CastInfrequent(d, top) ==
    LET keep(x) == ~x.null /\ x.v \in top
        cast(r) == Row(r.src,
                       [r.cells EXCEPT ![MODEL] =
                           IF keep(r.cells[MODEL]) THEN r.cells[MODEL]
                           ELSE V(INFREQUENT)])
    IN DataFrame(d.schema, BagOfAll(cast, d.rows))

(* Cell increase_data_size.                                                *)

\* range(a, b)
PyRange(a, b) == [i \in 1..(b - a) |-> a + i - 1]

\* for i in iters: df = df.unionAll(df)
RECURSIVE UnionLoop(_, _)
UnionLoop(d, iters) ==
    IF iters = <<>> THEN d
    ELSE UnionLoop(UnionAll(d, d), Tail(iters))

IncreaseDataSize(d) == UnionLoop(d, PyRange(1, 3))

----------------------------------------------------------------------------
(* Cell one_hot_encoding.                                                  *)

\* the categories OneHotEncoder.fit finds in column c, sorted
Categories(d, c) ==
    SortedSeq({r.cells[c].v : r \in {x \in DOMAIN d.rows : ~x.cells[c].null}})

\* the output columns of input column c: "<c>_<category>", one per category
OheOutputs(d, c) ==
    [i \in 1..Len(Categories(d, c)) |->
        [name |-> InferredName(c \o <<"_">> \o Categories(d, c)[i]),
         col |-> c,
         cat |-> Categories(d, c)[i]]]

RECURSIVE OheAllOutputs(_, _)
OheAllOutputs(d, cols) ==
    IF cols = <<>> THEN <<>>
    ELSE OheOutputs(d, Head(cols)) \o OheAllOutputs(d, Tail(cols))

\* OneHotEncoder(input_cols=cols, output_cols=cols, drop_input_cols=True)
\*     .fit(d).transform(d): the other columns, then the indicator columns
OneHotEncode(d, cols) ==
    LET rest == Drop(d, cols)
        outs == OheAllOutputs(d, cols)
        outOf(n) == outs[CHOOSE i \in 1..Len(outs) : outs[i].name = n]
        outNames == {outs[i].name : i \in 1..Len(outs)}
        encode(r) ==
            Row(r.src,
                [n \in ColumnSet(rest) \cup outNames |->
                    IF n \in outNames
                    THEN IF r.cells[outOf(n).col] = V(outOf(n).cat)
                         THEN V(1) ELSE V(0)
                    ELSE r.cells[n]])
    IN DataFrame(rest.schema
                     \o [i \in 1..Len(outs) |-> Field(outs[i].name, "DoubleType")],
                 BagOfAll(encode, d.rows))

(* Cell rename_columns.                                                    *)

\* mutant of NewName: the slice starts at the quote, not after it
NewNameKeepQuote(n, col) ==
    LET double_quote_spot == Find(col, "\"")
    IN IF double_quote_spot = 0
       THEN PySlice(col, double_quote_spot, Find(col, "_"))
                \o <<"_", "_">> \o Decimal(n)
       ELSE col

\* the body of the loop: the new name of column col at position n
NewName(n, col) ==
    LET double_quote_spot == Find(col, "\"")
    IN IF double_quote_spot = 0
       THEN PySlice(col, double_quote_spot + 1, Find(col, "_"))
                \o <<"_", "_">> \o Decimal(n)
       ELSE col

\* renaming_dict after the loop over enumerate(columns)
RenamingDict(columns) ==
    [col \in Range(columns) |->
        NewName((CHOOSE i \in 1..Len(columns) : columns[i] = col) - 1, col)]

\* the column names of transformed_df.rename(renaming_dict), in place
RenamedColumns(columns) ==
    [i \in 1..Len(columns) |-> NormalizedName(RenamingDict(columns)[columns[i]])]

\* two columns got one name: selecting by name is then ambiguous, and
\* df_renamed.select(sorted(df_renamed.columns)) raises
RenameCollides(columns) ==
    \E i, j \in 1..Len(columns) :
        i # j /\ RenamedColumns(columns)[i] = RenamedColumns(columns)[j]

\* transformed_df.rename(renaming_dict)
Rename(d) ==
    LET old == Columns(d)
        new == RenamedColumns(old)
        oldOf(n) == old[CHOOSE i \in 1..Len(new) : new[i] = n]
        rekey(r) == Row(r.src, [n \in Range(new) |-> r.cells[oldOf(n)]])
    IN DataFrame([i \in 1..Len(old) |-> Field(new[i], d.schema[i].datatype)],
                 BagOfAll(rekey, d.rows))

\* df_renamed.select(sorted(df_renamed.columns))
SortColumns(d) == Select(d, SortedSeq(ColumnSet(d)))

\* the Encoder stage on a dataset whose string columns are found by type
Encoder(d) ==
    LET isString(f) == f.datatype = "StringType"
        fs == SelectSeq(d.schema, isString)
    IN SortColumns(Rename(OneHotEncode(d, [i \in 1..Len(fs) |-> fs[i].name])))

----------------------------------------------------------------------------
(* Cell train_test_split.                                                  *)

\* weights=[0.95, 0.05], in hundredths
Weights == <<95, 5>>

RECURSIVE SumSeq(_)
SumSeq(s) == IF s = <<>> THEN 0 ELSE Head(s) + SumSeq(Tail(s))

\* [0] + [int(w * _ONE_MILLION) for w in cumsum(weights / sum(weights))]
NormalizedCumWeights ==
    <<0>> \o [i \in 1..Len(Weights) |->
                 (SumSeq(SubSeq(Weights, 1, i)) * OneMillion) \div SumSeq(Weights)]

\* values of abs(random(seed)) % _ONE_MILLION the model draws: the two sides
\* of the boundary between the two ranges
RandDraws == {NormalizedCumWeights[2] - 1, NormalizedCumWeights[2]}

\* the datasets with_column(temp, abs(random(seed)) % _ONE_MILLION).cache_result()
\* can be: every row occurrence has drawn one value
CachedWithRandom(d) ==
    LET maxc == IF DOMAIN d.rows = {} THEN 0
                ELSE CHOOSE m \in {d.rows[r] : r \in DOMAIN d.rows} :
                         \A r \in DOMAIN d.rows : d.rows[r] <= m
        sum(f) == SumSeq([i \in 1..Cardinality(RandDraws) |->
                             f[CHOOSE v \in RandDraws :
                                 Cardinality({w \in RandDraws : w < v}) = i - 1]])
        dists == {g \in [DOMAIN d.rows -> [RandDraws -> 0..maxc]] :
                     \A r \in DOMAIN d.rows : sum(g[r]) = d.rows[r]}
    IN {[p \in {q \in [row : DOMAIN d.rows, rnd : RandDraws] : g[q.row][q.rnd] > 0}
            |-> g[p.row][p.rnd]] : g \in dists}

\* mutant of SplitPart: > lower for >= lower
SplitPartOpenLower(d, cached, lower, upper) ==
    LET inRange == {p \in DOMAIN cached : p.rnd > lower /\ p.rnd < upper}
        dropTemp(p) == p.row
    IN DataFrame(d.schema, BagOfAll(dropTemp, BagFilter(cached, inRange)))

\* cached_df.where((col(temp) >= lower) & (col(temp) < upper)).drop(temp)
SplitPart(d, cached, lower, upper) ==
    LET inRange == {p \in DOMAIN cached : p.rnd >= lower /\ p.rnd < upper}
        dropTemp(p) == p.row
    IN DataFrame(d.schema, BagOfAll(dropTemp, BagFilter(cached, inRange)))

\* the i-th dataset random_split returns
RandomSplit(d, cached, i) ==
    SplitPart(d, cached, NormalizedCumWeights[i], NormalizedCumWeights[i + 1])

----------------------------------------------------------------------------
(* Cells model_definition to preds_vs_actuals_chart.                       *)

Unconfigured == [state |-> "Unconfigured"]

\* XGBRegressor(input_cols=train.drop("PRICE").columns,
\*              label_cols=train.select("PRICE").columns, ...)
XGBRegressor(d, method, predictor) ==
    [state |-> "Configured",
     input_cols |-> Columns(Drop(d, <<PRICE>>)),
     label_cols |-> Columns(Select(d, <<PRICE>>)),
     output_cols |-> PREDICTED_PRICE,
     tree_method |-> method,
     predictor |-> predictor]

\* estimator.fit(train) when it returns
Fit(m) == [m EXCEPT !.state = "Fitted"]

\* estimator.predict(d): d with the prediction column appended; the predicted
\* value is known only by the estimator that computed it
Predict(m, d) ==
    LET pred(r) ==
            Row(r.src,
                [n \in ColumnSet(d) \cup {m.output_cols} |->
                    IF n = m.output_cols
                    THEN [null |-> FALSE, by |-> m.tree_method]
                    ELSE r.cells[n]])
    IN [defined |-> TRUE,
        schema |-> Append(d.schema, Field(m.output_cols, "DoubleType")),
        rows |-> BagOfAll(pred, d.rows),
        model |-> m.tree_method]

----------------------------------------------------------------------------
(* The warehouse table.                                                    *)

TableSchema(extraType) ==
    <<Field(ID, "LongType"), Field(REGION, "StringType"),
      Field(PRICE, "LongType"), Field(MODEL, "StringType"),
      Field(EXTRA, extraType)>>

TableRow(region, price, model, extra) ==
    (ID :> V(1)) @@ (REGION :> region) @@ (PRICE :> price)
        @@ (MODEL :> model) @@ (EXTRA :> extra)

\* a value of a column of the given type
Sample(datatype) ==
    CASE datatype = "StringType" -> <<"c">>
      [] datatype = "BooleanType" -> TRUE
      [] OTHER -> 7

\* the tables of up to maxRows rows, rowsOf[t] being the rows a table whose
\* EXTRA column has type t can hold
Tables(rowsOf, maxRows) ==
    UNION {{[schema |-> TableSchema(t), rows |-> rs] :
               rs \in UNION {[1..k -> rowsOf[t]] : k \in 0..maxRows}} :
           t \in DOMAIN rowsOf}

DataTypes ==
    {"StringType", "LongType", "DoubleType", "DecimalType", "BooleanType"}

\* the tables of the full pipeline
PipelineRows(t) ==
    {TableRow(region, price, model, extra) :
        region \in {Null, V(<<"a">>)},
        price \in {Null, V(0), V(PriceLimit - 1), V(PriceLimit)},
        model \in {Null, V(<<"b">>)},
        extra \in {Null, V(Sample(t))}}

\* the tables of the cardinality-reducer runs: many models, nothing else varies
CastRows(t) ==
    {TableRow(V(<<"a">>), V(0), model, V(Sample(t))) :
        model \in {V(<<"a">>), V(<<"b">>), V(<<"c">>), V(INFREQUENT)}}

\* the tables of the encoder runs: categories that need quotes and categories
\* that do not
EncoderRows(t) ==
    {TableRow(region, V(0), model, V(Sample(t))) :
        region \in {Null, V(<<"a">>), V(<<"_", "2">>), V(<<"_", "3">>)},
        model \in {Null, V(<<"b">>)}}

----------------------------------------------------------------------------
(* The notebook.                                                           *)

InitWith(tables) ==
    /\ pc = "load_data"
    /\ failed_cell = ""
    /\ table \in tables
    /\ df = Undefined
    /\ string_cols = <<>>
    /\ non_string_cols = <<>>
    /\ df_before_cast = Undefined
    /\ top_n_models = {}
    /\ df_pd = Undefined
    /\ transformed_df = Undefined
    /\ df_renamed = Undefined
    /\ df_rerun = Undefined
    /\ train = Undefined
    /\ test = Undefined
    /\ cpu_snowpark_xgb = Unconfigured
    /\ gpu_snowpark_xgb = Unconfigured
    /\ cpu_test_preds = Undefined
    /\ gpu_test_preds = Undefined
    /\ metrics = Undefined
    /\ results_df = Undefined

\* df = session.table(table)
load_data ==
    /\ pc = "load_data"
    /\ df' = SessionTable(table)
    /\ pc' = "filter_to_100k"
    /\ UNCHANGED <<failed_cell, table, string_cols, non_string_cols,
                   df_before_cast, top_n_models, df_pd, transformed_df,
                   df_renamed, df_rerun, train, test, cpu_snowpark_xgb,
                   gpu_snowpark_xgb, cpu_test_preds, gpu_test_preds, metrics,
                   results_df>>

\* df = df.filter(col('PRICE')<100000)
filter_to_100k ==
    /\ pc = "filter_to_100k"
    /\ df' = Filter100k(df)
    /\ pc' = "drop_columns"
    /\ UNCHANGED <<failed_cell, table, string_cols, non_string_cols,
                   df_before_cast, top_n_models, df_pd, transformed_df,
                   df_renamed, df_rerun, train, test, cpu_snowpark_xgb,
                   gpu_snowpark_xgb, cpu_test_preds, gpu_test_preds, metrics,
                   results_df>>

\* df = df.drop(drop_cols)
drop_columns ==
    /\ pc = "drop_columns"
    /\ df' = Drop(df, drop_cols)
    /\ pc' = "fill_null"
    /\ UNCHANGED <<failed_cell, table, string_cols, non_string_cols,
                   df_before_cast, top_n_models, df_pd, transformed_df,
                   df_renamed, df_rerun, train, test, cpu_snowpark_xgb,
                   gpu_snowpark_xgb, cpu_test_preds, gpu_test_preds, metrics,
                   results_df>>

\* string_cols, non_string_cols, then the two fillna calls
fill_null ==
    /\ pc = "fill_null"
    /\ string_cols' = StringCols(df)
    /\ non_string_cols' = Columns(Drop(df, string_cols'))
    /\ df' = FillNa(FillNa(df, NA, "str", string_cols'), 0, "int", non_string_cols')
    /\ pc' = "infrequent_category_casting"
    /\ UNCHANGED <<failed_cell, table, df_before_cast, top_n_models, df_pd,
                   transformed_df, df_renamed, df_rerun, train, test,
                   cpu_snowpark_xgb, gpu_snowpark_xgb, cpu_test_preds,
                   gpu_test_preds, metrics, results_df>>

\* to_pandas, value_counts, apply, create_dataframe.  Whether create_dataframe
\* accepts a pandas DataFrame without rows depends on the library version.
infrequent_category_casting ==
    /\ pc = "infrequent_category_casting"
    /\ df_before_cast' = df
    /\ \E top \in TopKeys(ValueCounts(df, MODEL), TopN) :
          /\ top_n_models' = top
          /\ df_pd' = CastInfrequent(df, top)
    /\ \/ /\ df' = df_pd'
          /\ pc' = "increase_data_size"
          /\ UNCHANGED failed_cell
       \/ /\ DOMAIN df.rows = {}
          /\ df' = df
          /\ pc' = "failed"
          /\ failed_cell' = "infrequent_category_casting"
    /\ UNCHANGED <<table, string_cols, non_string_cols, transformed_df,
                   df_renamed, df_rerun, train, test, cpu_snowpark_xgb,
                   gpu_snowpark_xgb, cpu_test_preds, gpu_test_preds, metrics,
                   results_df>>

\* for i in range(1,3): df = df.unionAll(df)
increase_data_size ==
    /\ pc = "increase_data_size"
    /\ df' = IncreaseDataSize(df)
    /\ pc' = "one_hot_encoding"
    /\ UNCHANGED <<failed_cell, table, string_cols, non_string_cols,
                   df_before_cast, top_n_models, df_pd, transformed_df,
                   df_renamed, df_rerun, train, test, cpu_snowpark_xgb,
                   gpu_snowpark_xgb, cpu_test_preds, gpu_test_preds, metrics,
                   results_df>>

\* OHE_COLS = string_cols; transformed_df = snowml_ohe.fit(df).transform(df)
one_hot_encoding ==
    /\ pc = "one_hot_encoding"
    /\ transformed_df' = OneHotEncode(df, string_cols)
    /\ pc' = "rename_columns"
    /\ UNCHANGED <<failed_cell, table, df, string_cols, non_string_cols,
                   df_before_cast, top_n_models, df_pd, df_renamed, df_rerun,
                   train, test, cpu_snowpark_xgb, gpu_snowpark_xgb,
                   cpu_test_preds, gpu_test_preds, metrics, results_df>>

\* renaming_dict, rename, select(sorted(...))
rename_columns ==
    /\ pc = "rename_columns"
    /\ IF RenameCollides(Columns(transformed_df))
       THEN /\ pc' = "failed"
            /\ failed_cell' = "rename_columns"
            /\ UNCHANGED df_renamed
       ELSE /\ df_renamed' = SortColumns(Rename(transformed_df))
            /\ pc' = "train_test_split"
            /\ UNCHANGED failed_cell
    /\ UNCHANGED <<table, df, string_cols, non_string_cols, df_before_cast,
                   top_n_models, df_pd, transformed_df, df_rerun, train, test,
                   cpu_snowpark_xgb, gpu_snowpark_xgb, cpu_test_preds,
                   gpu_test_preds, metrics, results_df>>

\* train, test = df_renamed.random_split(weights=[0.95, 0.05], seed=0)
train_test_split ==
    /\ pc = "train_test_split"
    /\ \E cached \in CachedWithRandom(df_renamed) :
          /\ train' = RandomSplit(df_renamed, cached, 1)
          /\ test' = RandomSplit(df_renamed, cached, 2)
    /\ pc' = "model_definition"
    /\ UNCHANGED <<failed_cell, table, df, string_cols, non_string_cols,
                   df_before_cast, top_n_models, df_pd, transformed_df,
                   df_renamed, df_rerun, cpu_snowpark_xgb, gpu_snowpark_xgb,
                   cpu_test_preds, gpu_test_preds, metrics, results_df>>

\* the two XGBRegressor(...) constructions
model_definition ==
    /\ pc = "model_definition"
    /\ cpu_snowpark_xgb' = XGBRegressor(train, "hist", "cpu_predictor")
    /\ gpu_snowpark_xgb' = XGBRegressor(train, "gpu_hist", "gpu_predictor")
    /\ pc' = "cpu_train"
    /\ UNCHANGED <<failed_cell, table, df, string_cols, non_string_cols,
                   df_before_cast, top_n_models, df_pd, transformed_df,
                   df_renamed, df_rerun, train, test, cpu_test_preds,
                   gpu_test_preds, metrics, results_df>>

\* cpu_snowpark_xgb.fit(train): it returns, or it raises and the run ends
cpu_train ==
    /\ pc = "cpu_train"
    /\ \/ /\ cpu_snowpark_xgb' = Fit(cpu_snowpark_xgb)
          /\ pc' = "gpu_train"
          /\ UNCHANGED failed_cell
       \/ /\ pc' = "failed"
          /\ failed_cell' = "cpu_train"
          /\ UNCHANGED cpu_snowpark_xgb
    /\ UNCHANGED <<table, df, string_cols, non_string_cols, df_before_cast,
                   top_n_models, df_pd, transformed_df, df_renamed, df_rerun,
                   train, test, gpu_snowpark_xgb, cpu_test_preds,
                   gpu_test_preds, metrics, results_df>>

\* mutant of gpu_train: when the GPU fit raises, the fitted CPU estimator is
\* used in its place and the run goes on
gpu_train_fallback ==
    /\ pc = "gpu_train"
    /\ \/ gpu_snowpark_xgb' = Fit(gpu_snowpark_xgb)
       \/ gpu_snowpark_xgb' = cpu_snowpark_xgb
    /\ pc' = "cpu_predict"
    /\ UNCHANGED <<failed_cell, table, df, string_cols, non_string_cols,
                   df_before_cast, top_n_models, df_pd, transformed_df,
                   df_renamed, df_rerun, train, test, cpu_snowpark_xgb,
                   cpu_test_preds, gpu_test_preds, metrics, results_df>>

\* gpu_snowpark_xgb.fit(train): it returns, or it raises and the run ends
gpu_train ==
    /\ pc = "gpu_train"
    /\ \/ /\ gpu_snowpark_xgb' = Fit(gpu_snowpark_xgb)
          /\ pc' = "cpu_predict"
          /\ UNCHANGED failed_cell
       \/ /\ pc' = "failed"
          /\ failed_cell' = "gpu_train"
          /\ UNCHANGED gpu_snowpark_xgb
    /\ UNCHANGED <<table, df, string_cols, non_string_cols, df_before_cast,
                   top_n_models, df_pd, transformed_df, df_renamed, df_rerun,
                   train, test, cpu_snowpark_xgb, cpu_test_preds,
                   gpu_test_preds, metrics, results_df>>

\* cpu_test_preds = cpu_snowpark_xgb.predict(test); predict raises on an
\* estimator that is not fitted
cpu_predict ==
    /\ pc = "cpu_predict"
    /\ IF cpu_snowpark_xgb.state = "Fitted"
       THEN /\ cpu_test_preds' = Predict(cpu_snowpark_xgb, test)
            /\ pc' = "gpu_predict"
            /\ UNCHANGED failed_cell
       ELSE /\ pc' = "failed"
            /\ failed_cell' = "cpu_predict"
            /\ UNCHANGED cpu_test_preds
    /\ UNCHANGED <<table, df, string_cols, non_string_cols, df_before_cast,
                   top_n_models, df_pd, transformed_df, df_renamed, df_rerun,
                   train, test, cpu_snowpark_xgb, gpu_snowpark_xgb,
                   gpu_test_preds, metrics, results_df>>

\* gpu_test_preds = gpu_snowpark_xgb.predict(test)
gpu_predict ==
    /\ pc = "gpu_predict"
    /\ IF gpu_snowpark_xgb.state = "Fitted"
       THEN /\ gpu_test_preds' = Predict(gpu_snowpark_xgb, test)
            /\ pc' = "compute_perf_metrics"
            /\ UNCHANGED failed_cell
       ELSE /\ pc' = "failed"
            /\ failed_cell' = "gpu_predict"
            /\ UNCHANGED gpu_test_preds
    /\ UNCHANGED <<table, df, string_cols, non_string_cols, df_before_cast,
                   top_n_models, df_pd, transformed_df, df_renamed, df_rerun,
                   train, test, cpu_snowpark_xgb, gpu_snowpark_xgb,
                   cpu_test_preds, metrics, results_df>>

\* r2_score and mean_squared_error of gpu_test_preds: the metrics are known
\* only by the predictions they were computed from
compute_perf_metrics ==
    /\ pc = "compute_perf_metrics"
    /\ metrics' = [defined |-> TRUE,
                   model |-> gpu_test_preds.model,
                   y_true_col_name |-> PRICE,
                   y_pred_col_name |-> PREDICTED_PRICE]
    /\ pc' = "preds_vs_actuals_chart"
    /\ UNCHANGED <<failed_cell, table, df, string_cols, non_string_cols,
                   df_before_cast, top_n_models, df_pd, transformed_df,
                   df_renamed, df_rerun, train, test, cpu_snowpark_xgb,
                   gpu_snowpark_xgb, cpu_test_preds, gpu_test_preds,
                   results_df>>

\* results_df = gpu_test_preds.select(['PRICE', 'PREDICTED_PRICE']).to_pandas()
preds_vs_actuals_chart ==
    /\ pc = "preds_vs_actuals_chart"
    /\ results_df' = Select(gpu_test_preds, <<PRICE, PREDICTED_PRICE>>)
    /\ pc' = "done"
    /\ UNCHANGED <<failed_cell, table, df, string_cols, non_string_cols,
                   df_before_cast, top_n_models, df_pd, transformed_df,
                   df_renamed, df_rerun, train, test, cpu_snowpark_xgb,
                   gpu_snowpark_xgb, cpu_test_preds, gpu_test_preds, metrics>>

\* the Encoder stage once more, on its own output
rerun_encoder ==
    /\ pc = "train_test_split"
    /\ ~df_rerun.defined
    /\ df_rerun' = Encoder(df_renamed)
    /\ UNCHANGED <<pc, failed_cell, table, df, string_cols, non_string_cols,
                   df_before_cast, top_n_models, df_pd, transformed_df,
                   df_renamed, train, test, cpu_snowpark_xgb,
                   gpu_snowpark_xgb, cpu_test_preds, gpu_test_preds, metrics,
                   results_df>>

Init == InitWith(Tables([t \in DataTypes |-> PipelineRows(t)], MaxRows))

Next ==
    \/ load_data
    \/ filter_to_100k
    \/ drop_columns
    \/ fill_null
    \/ infrequent_category_casting
    \/ increase_data_size
    \/ one_hot_encoding
    \/ rename_columns
    \/ train_test_split
    \/ model_definition
    \/ cpu_train
    \/ gpu_train
    \/ cpu_predict
    \/ gpu_predict
    \/ compute_perf_metrics
    \/ preds_vs_actuals_chart

Spec == Init /\ [][Next]_vars

\* the notebook up to the cardinality reducer, on tables with many models
InitCast == InitWith(Tables([t \in {"LongType"} |-> CastRows(t)], MaxCastRows))

NextCast ==
    \/ load_data
    \/ filter_to_100k
    \/ drop_columns
    \/ fill_null
    \/ infrequent_category_casting

SpecCast == InitCast /\ [][NextCast]_vars

\* the notebook up to the encoder, and the encoder once more on its output
InitEncoder ==
    InitWith(Tables([t \in {"StringType", "LongType"} |-> EncoderRows(t)],
                    MaxEncRows))

NextEncoder ==
    \/ load_data
    \/ filter_to_100k
    \/ drop_columns
    \/ fill_null
    \/ infrequent_category_casting
    \/ increase_data_size
    \/ one_hot_encoding
    \/ rename_columns
    \/ rerun_encoder

SpecEncoder == InitEncoder /\ [][NextEncoder]_vars

\* the whole notebook on tables of up to MaxPriceRows rows whose prices vary
PriceRows(t) ==
    {TableRow(V(<<"a">>), price, V(<<"b">>), V(Sample(t))) :
        price \in {Null, V(0), V(PriceLimit - 1), V(PriceLimit)}}

InitPrice == InitWith(Tables([t \in {"LongType"} |-> PriceRows(t)], MaxPriceRows))

SpecPrice == InitPrice /\ [][Next]_vars

----------------------------------------------------------------------------
(* Properties.                                                             *)

RowsOf(d) == IF d.defined THEN DOMAIN d.rows ELSE {}
SourceCell(r, c) == table.rows[r.src][c]
FilterDone == pc \notin {"load_data", "filter_to_100k"}
SplitDone == train.defined /\ test.defined

\* the datasets the notebook holds once the price filter has run
AfterFilter ==
    (IF FilterDone THEN {df} ELSE {})
        \cup {df_pd, transformed_df, df_renamed, train, test}

C2_FillComplete ==
    pc = "infrequent_category_casting" =>
        \A r \in RowsOf(df) : \A c \in DOMAIN r.cells :
            /\ ~r.cells[c].null
            /\ SourceCell(r, c).null =>
                  r.cells[c] = IF c \in Range(string_cols) THEN V(NA) ELSE V(0)

\* how many rows of d hold v in column c
Occurrences(d, c, v) ==
    BagCardinality(BagFilter(d.rows, {r \in DOMAIN d.rows : r.cells[c] = V(v)}))

ValuesOf(d, c) == {r.cells[c].v : r \in {x \in RowsOf(d) : ~x.cells[c].null}}

\* S is a set of the n most frequent values of column c of d
IsTopN(S, d, c, n) ==
    /\ S \subseteq ValuesOf(d, c)
    /\ Cardinality(S) = IF Cardinality(ValuesOf(d, c)) <= n
                        THEN Cardinality(ValuesOf(d, c)) ELSE n
    /\ \A a \in S : \A b \in ValuesOf(d, c) \ S :
          Occurrences(d, c, a) >= Occurrences(d, c, b)

CastDone == pc = "increase_data_size"
SomeModelOutside == ValuesOf(df_before_cast, MODEL) \ top_n_models # {}

\* the part of C3 that does not speak of the sentinel's absence
CastAsStated ==
    /\ IsTopN(top_n_models, df_before_cast, MODEL, TopN)
    /\ ValuesOf(df, MODEL) =
           top_n_models \cup (IF SomeModelOutside THEN {INFREQUENT} ELSE {})
    /\ df.schema = df_before_cast.schema
    /\ BagCardinality(df.rows) = BagCardinality(df_before_cast.rows)
    /\ \A r \in RowsOf(df_before_cast) :
          \E q \in RowsOf(df) :
              /\ q.src = r.src
              /\ df.rows[q] = df_before_cast.rows[r]
              /\ \A c \in DOMAIN r.cells \ {MODEL} : q.cells[c] = r.cells[c]
              /\ q.cells[MODEL] = IF r.cells[MODEL].v \in top_n_models
                                  THEN r.cells[MODEL] ELSE V(INFREQUENT)

\* C3 as stated: the MODEL values of the output are the TopN most frequent
\* input values, and "INFREQUENT" is among them if and only if some input row
\* held a value outside the top set; rows in the top set keep their value, the
\* others get "INFREQUENT"; row count and other columns are unchanged.
C3_SentinelIffOutside ==
    CastDone =>
        /\ CastAsStated
        /\ INFREQUENT \in ValuesOf(df, MODEL) <=> SomeModelOutside

\* C3 as amended: as stated, but "INFREQUENT" is among the output values if
\* and only if some input row held a value outside the top set or
\* "INFREQUENT" is itself one of the top input values.
C3_CastInfrequent ==
    CastDone =>
        /\ CastAsStated
        /\ INFREQUENT \in ValuesOf(df, MODEL) <=>
              (SomeModelOutside \/ INFREQUENT \in top_n_models)

\* more than TopN models in the input, one of them cast to the sentinel
C3_Witness ==
    /\ CastDone
    /\ Cardinality(top_n_models) = TopN
    /\ Cardinality(ValuesOf(df_before_cast, MODEL)) > TopN
    /\ INFREQUENT \notin ValuesOf(df_before_cast, MODEL)
    /\ INFREQUENT \in ValuesOf(df, MODEL)

\* C4: train and test partition df_renamed: as bags of rows, train plus test
\* is df_renamed, so every row occurrence is in exactly one of the two, and
\* neither holds a row that df_renamed does not.
C4_SplitPartitions ==
    SplitDone =>
        /\ train.rows (+) test.rows = df_renamed.rows
        /\ train.schema = df_renamed.schema
        /\ test.schema = df_renamed.schema
        /\ RowsOf(train) \cup RowsOf(test) \subseteq RowsOf(df_renamed)

\* a split with occurrences of one row on both sides
C4_Witness ==
    /\ SplitDone
    /\ \E r \in RowsOf(train) \cap RowsOf(test) :
          train.rows[r] + test.rows[r] = df_renamed.rows[r]
    /\ BagCardinality(df_renamed.rows) > BagCardinality(train.rows)

Fitted(m) == m.state = "Fitted"
PredictedBy(d) == {r.cells[PREDICTED_PRICE].by : r \in RowsOf(d)}

C6_Order ==
    /\ cpu_test_preds.defined => Fitted(cpu_snowpark_xgb)
    /\ gpu_test_preds.defined => Fitted(gpu_snowpark_xgb)
    /\ Fitted(gpu_snowpark_xgb) => gpu_snowpark_xgb.tree_method = "gpu_hist"
    /\ gpu_test_preds.defined =>
          gpu_test_preds.model = "gpu_hist"
              /\ PredictedBy(gpu_test_preds) \subseteq {"gpu_hist"}
    /\ metrics.defined => gpu_test_preds.defined /\ metrics.model = "gpu_hist"
    /\ results_df.defined =>
          gpu_test_preds.defined /\ PredictedBy(results_df) \subseteq {"gpu_hist"}

C6_FailurePropagates ==
    failed_cell = "gpu_train" =>
        /\ pc = "failed"
        /\ ~Fitted(gpu_snowpark_xgb)
        /\ ~gpu_test_preds.defined
        /\ ~metrics.defined
        /\ ~results_df.defined

C6_Step(m) ==
    m' # m =>
        \/ m.state = "Unconfigured" /\ m'.state = "Configured"
        \/ m.state = "Configured" /\ m'.state = "Fitted"

\* C6: an estimator only goes Unconfigured -> Configured -> Fitted;
\* predictions exist only of a fitted estimator; the GPU predictions, the
\* metrics and the plotted results come from the gpu_hist estimator, never
\* from the CPU one; and when the GPU fit raises the run has ended with no
\* GPU predictions, no metrics and no plot.
C6_TrainerFailure ==
    /\ [](C6_Order /\ C6_FailurePropagates)
    /\ [][C6_Step(cpu_snowpark_xgb) /\ C6_Step(gpu_snowpark_xgb)]_vars

\* the GPU fit raised after the CPU fit had succeeded
C6_Witness ==
    /\ failed_cell = "gpu_train"
    /\ Fitted(cpu_snowpark_xgb)

CellOccurrences(d, f) ==
    BagCardinality(BagFilter(d.rows, {r \in DOMAIN d.rows : r.cells = f}))

AmplifyDone == pc = "one_hot_encoding"

\* C8: after the self-union loop df has 4 times the rows of its input (df_pd,
\* which create_dataframe uploaded), every row occurs 4 times as often as in
\* the input, no other row occurs, and the columns are unchanged.
C8_FourTimes ==
    AmplifyDone =>
        /\ BagCardinality(df.rows) = 4 * BagCardinality(df_pd.rows)
        /\ RowsOf(df) = RowsOf(df_pd)
        /\ \A r \in RowsOf(df_pd) :
              /\ df.rows[r] = 4 * df_pd.rows[r]
              /\ CellOccurrences(df, r.cells) = 4 * CellOccurrences(df_pd, r.cells)
        /\ df.schema = df_pd.schema

\* an input holding the same row twice, which the output holds 8 times
C8_Witness ==
    /\ AmplifyDone
    /\ \E r \in RowsOf(df_pd) :
          CellOccurrences(df_pd, r.cells) = 2 /\ CellOccurrences(df, r.cells) = 8

RenameDone ==
    transformed_df.defined /\ pc # "rename_columns"

\* C9: the renaming sends distinct columns of transformed_df to distinct
\* names (renamed against renamed, and renamed against kept); a name that does
\* not start with '"' is kept, the number of columns is kept, and the columns
\* of df_renamed are the new names in sorted order.
C9_RenamingCollisionFree ==
    RenameDone =>
        LET old == Columns(transformed_df)
            new == [i \in 1..Len(old) |-> RenamingDict(old)[old[i]]]
        IN /\ \A i, j \in 1..Len(old) : i # j => new[i] # new[j]
           /\ \A i \in 1..Len(old) : Head(old[i]) # "\"" => new[i] = old[i]
           /\ df_renamed.defined
           /\ Len(df_renamed.schema) = Len(old)
           /\ ColumnSet(df_renamed) = Range(new)
           /\ \A i, j \in 1..Len(df_renamed.schema) :
                 i < j => StrLess(Columns(df_renamed)[i], Columns(df_renamed)[j])

====
